---- MODULE Spec2Model ----
(***************************************************************************)
(* A model of scripts/process_icons.py: one function, process_icons(),     *)
(* that checks for NEW-updated.png, opens it with the imaging library,     *)
(* saves app_icon.ico, resizes to 256x256, saves icon_256.png, and prints  *)
(* what it did.  Every statement of the function is one action; the        *)
(* program counter pc is the line number of the statement about to run.    *)
(*                                                                         *)
(* The imaging library is not part of the repository.  Each of its four    *)
(* calls either returns or raises an Exception; which calls raise in a     *)
(* run is the environment's choice (a damaged source, a full disk, a       *)
(* read-only directory), fixed when the run starts (faults).               *)
(***************************************************************************)
EXTENDS Naturals, Sequences, FiniteSets

\* ------------------------------------------------------------------ bounds

\* How many times the script is run one after the other.
MaxRuns == 2
\* How many different pictures (of each width and height) the source may hold.
MaxImages == 1
\* Widths and heights of a source picture: a square one smaller than every
\* output but the smallest icon frames, and a large non-square one.
Shapes == {<<64, 64>>, <<512, 300>>}

\* --------------------------------------------------------- program constants

source_image == "NEW-updated.png"
ico_path == "app_icon.ico"
png_path == "icon_256.png"
icon_sizes == << <<16, 16>>, <<32, 32>>, <<48, 48>>, <<64, 64>>, <<128, 128>>, <<256, 256>> >>
resize_side == 256

Paths == {source_image, ico_path, png_path}
Outputs == {ico_path, png_path}

\* The four library calls inside the try block.
Calls == {"open", "save_ico", "resize", "save_png"}

\* ------------------------------------------------------------ file contents

Absent == [fmt |-> "ABSENT"]
\* An output file left by something before the first run.
Old == [fmt |-> "OLD"]
\* What a save that raised may leave behind.
Partial == [fmt |-> "PARTIAL"]
NoImage == [fmt |-> "NONE"]

Images == {[fmt |-> "IMG", id |-> i, w |-> sh[1], h |-> sh[2]] : i \in 1..MaxImages, sh \in Shapes}
Sources == Images \cup {Absent}

VARIABLES
    fs,          \* the working directory: path -> contents
    pc,          \* "idle" | line about to run | "done"
    run,         \* number of runs started
    faults,      \* the library calls that raise in the current run
    img,         \* local img
    img_resized, \* local img_resized
    exc,         \* the exception being handled (the call that raised), or "none"
    out,         \* lines printed by the current run
    log,         \* library calls made by the current run, with their outcome
    fs0,         \* the working directory when the current run started
    status,      \* how the current run ended: "running" | "success"
    prev         \* summary of the run before the current one

vars == <<fs, pc, run, faults, img, img_resized, exc, out, log, fs0, status, prev>>

\* ------------------------------------------------------------------ helpers

\* os.path.exists(source_image) is false
SourceMissingNever(f) == FALSE
SourceMissing(f) == f[source_image] = Absent

\* print(f"Error: {source_image} not found.")
NotFoundLine == <<"Error: ", source_image, " not found.">>
GeneratedIco == <<"Generated app_icon.ico">>
GeneratedPng == <<"Generated icon_256.png">>
\* print(f"Error processing image: {e}")
ErrorLine(e) == <<"Error processing image: ", e>>
IsErrorLine(l) == Len(l) = 2 /\ l[1] = "Error processing image: "

\* Whether a library call raises in this run.
Raises(call, fl) == call \in fl

\* Where control goes when a call inside the try block raises: every call is
\* inside the one try, so always the except handler at line 28.
OnRaiseIcoIndependent(call) == IF call = "save_ico" THEN "l23" ELSE "l28"
OnRaiseOpenIgnored(call) == IF call = "open" THEN "l16" ELSE "l28"
OnRaisePngUncaught(call) == IF call = "save_png" THEN "crash" ELSE "l28"
OnRaisePngRetried(call) == IF call = "save_png" THEN "l23" ELSE "l28"
OnRaisePngReported(call) == IF call = "save_png" THEN "l25" ELSE "l28"
OnRaise(call) == "l28"

\* img.save("app_icon.ico", format="ICO", sizes=icon_sizes): the file the
\* library is asked for.
IcoFile(im) == [fmt |-> "ICO", sizes |-> icon_sizes, of |-> im]
\* img.resize((256, 256), LANCZOS)
Resized(im) == [fmt |-> "RESIZED", w |-> resize_side, h |-> resize_side, of |-> im]
\* img_resized.save("icon_256.png")
PngFile(im) == [fmt |-> "PNG", w |-> im.w, h |-> im.h, of |-> im.of]

\* A save that returns replaces whatever the path held.
SavedKeepExisting(f, path, content) ==
    IF f[path] = Absent THEN [f EXCEPT ![path] = content] ELSE f
SavedOnce(f, path, content) ==
    [f EXCEPT ![path] = IF f[path] = Absent THEN content ELSE Partial]
Saved(f, path, content) == [f EXCEPT ![path] = content]

\* A save that raises leaves the path as it was or holding a partial file.
FailedSave(f, path) == {f, [f EXCEPT ![path] = Partial]}

\* What one finished run looked like from outside: the source it found, whether
\* the environment made any call raise, what it printed, the outputs it left.
Summary == [src |-> fs0[source_image], clean |-> faults = {},
            out |-> out, ico |-> fs[ico_path], png |-> fs[png_path]]
NoRun == [src |-> Absent, clean |-> FALSE, out |-> <<>>, ico |-> Absent, png |-> Absent]

\* --------------------------------------------------------------------- Init

Init ==
    /\ fs \in [Paths -> Sources \cup {Old}]
    /\ fs[source_image] \in Sources
    /\ \A p \in Outputs : fs[p] \in {Absent, Old}
    /\ pc = "idle"
    /\ run = 0
    /\ faults = {}
    /\ img = NoImage
    /\ img_resized = NoImage
    /\ exc = "none"
    /\ out = <<>>
    /\ log = <<>>
    /\ fs0 = fs
    /\ status = "running"
    /\ prev = NoRun

\* ------------------------------------------------------------------ actions

\* python scripts/process_icons.py: lines 30-31, 4-5
Start ==
    /\ pc \in {"idle", "done"}
    /\ run < MaxRuns
    /\ \E fl \in SUBSET Calls : faults' = fl
    /\ pc' = "l6"
    /\ run' = run + 1
    /\ img' = NoImage
    /\ img_resized' = NoImage
    /\ exc' = "none"
    /\ out' = <<>>
    /\ log' = <<>>
    /\ fs0' = fs
    /\ status' = "running"
    /\ prev' = IF run = 0 THEN NoRun ELSE Summary
    /\ UNCHANGED fs

\* line 6
CheckExists ==
    /\ pc = "l6"
    /\ pc' = IF SourceMissing(fs) THEN "l7" ELSE "l11"
    /\ UNCHANGED <<fs, run, faults, img, img_resized, exc, out, log, fs0, status, prev>>

\* lines 7-8
PrintNotFound ==
    /\ pc = "l7"
    /\ out' = Append(out, NotFoundLine)
    /\ pc' = "ret"
    /\ UNCHANGED <<fs, run, faults, img, img_resized, exc, log, fs0, status, prev>>

\* line 11
Open ==
    /\ pc = "l11"
    /\ IF Raises("open", faults)
       THEN /\ log' = Append(log, <<"open", "raise">>)
            /\ exc' = "open"
            /\ pc' = OnRaise("open")
            /\ UNCHANGED img
       ELSE /\ log' = Append(log, <<"open", "ok">>)
            /\ img' = fs[source_image]
            /\ pc' = "l16"
            /\ UNCHANGED exc
    /\ UNCHANGED <<fs, run, faults, img_resized, out, fs0, status, prev>>

\* lines 15-16
SaveIco ==
    /\ pc = "l16"
    /\ IF Raises("save_ico", faults)
       THEN /\ log' = Append(log, <<"save_ico", "raise">>)
            /\ fs' \in FailedSave(fs, ico_path)
            /\ exc' = "save_ico"
            /\ pc' = OnRaise("save_ico")
       ELSE /\ log' = Append(log, <<"save_ico", "ok">>)
            /\ fs' = Saved(fs, ico_path, IcoFile(img))
            /\ pc' = "l17"
            /\ UNCHANGED exc
    /\ UNCHANGED <<run, faults, img, img_resized, out, fs0, status, prev>>

\* line 17
PrintIco ==
    /\ pc = "l17"
    /\ out' = Append(out, GeneratedIco)
    /\ pc' = "l23"
    /\ UNCHANGED <<fs, run, faults, img, img_resized, exc, log, fs0, status, prev>>

\* line 23
Resize ==
    /\ pc = "l23"
    /\ IF Raises("resize", faults)
       THEN /\ log' = Append(log, <<"resize", "raise">>)
            /\ exc' = "resize"
            /\ pc' = OnRaise("resize")
            /\ UNCHANGED img_resized
       ELSE /\ log' = Append(log, <<"resize", "ok">>)
            /\ img_resized' = Resized(img)
            /\ pc' = "l24"
            /\ UNCHANGED exc
    /\ UNCHANGED <<fs, run, faults, img, out, fs0, status, prev>>

\* line 24
SavePng ==
    /\ pc = "l24"
    /\ IF Raises("save_png", faults)
       THEN /\ log' = Append(log, <<"save_png", "raise">>)
            /\ fs' \in FailedSave(fs, png_path)
            /\ exc' = "save_png"
            /\ pc' = OnRaise("save_png")
       ELSE /\ log' = Append(log, <<"save_png", "ok">>)
            /\ fs' = Saved(fs, png_path, PngFile(img_resized))
            /\ pc' = "l25"
            /\ UNCHANGED exc
    /\ UNCHANGED <<run, faults, img, img_resized, out, fs0, status, prev>>

\* line 25, then the function falls off its end
PrintPng ==
    /\ pc = "l25"
    /\ out' = Append(out, GeneratedPng)
    /\ pc' = "ret"
    /\ UNCHANGED <<fs, run, faults, img, img_resized, exc, log, fs0, status, prev>>

\* lines 27-28, then the function falls off its end
Except ==
    /\ pc = "l28"
    /\ out' = Append(out, ErrorLine(exc))
    /\ pc' = "ret"
    /\ UNCHANGED <<fs, run, faults, img, img_resized, exc, log, fs0, status, prev>>

\* process_icons() returns to line 31 and the interpreter exits
Return ==
    /\ pc = "ret"
    /\ pc' = "done"
    /\ status' = "success"
    /\ UNCHANGED <<fs, run, faults, img, img_resized, exc, out, log, fs0, prev>>

\* Between two runs the user may replace or remove the source file.
ChangeSource ==
    /\ pc = "done"
    /\ run < MaxRuns
    /\ \E s \in Sources \ {fs[source_image]} :
           fs' = [fs EXCEPT ![source_image] = s]
    /\ pc' = "idle"
    /\ UNCHANGED <<run, faults, img, img_resized, exc, out, log, fs0, status, prev>>

Step ==
    \/ CheckExists
    \/ PrintNotFound
    \/ Open
    \/ SaveIco
    \/ PrintIco
    \/ Resize
    \/ SavePng
    \/ PrintPng
    \/ Except
    \/ Return

Next ==
    \/ Start
    \/ Step
    \/ ChangeSource

Spec == Init /\ [][Next]_vars

\* The interpreter always runs the next statement of a started run.
FairSpec == Init /\ [][Next]_vars /\ WF_vars(Step)

\* ------------------------------------------------------- reading a run

Made(call) == \E i \in DOMAIN log : log[i][1] = call
Ok(call) == \E i \in DOMAIN log : log[i] = <<call, "ok">>
Failed(call) == \E i \in DOMAIN log : log[i] = <<call, "raise">>
Count(call) == Cardinality({i \in DOMAIN log : log[i][1] = call})
Has(line) == \E i \in DOMAIN out : out[i] = line
IsError(l) == IsErrorLine(l) \/ l = NotFoundLine
Untouched(p) == fs[p] = fs0[p]
Finished == pc = "done"

TypeOK ==
    /\ pc \in {"idle", "l6", "l7", "l11", "l16", "l17", "l23", "l24", "l25", "l28", "ret", "done"}
    /\ run \in 0..MaxRuns
    /\ faults \subseteq Calls
    /\ exc \in Calls \cup {"none"}
    /\ status \in {"running", "success"}
    /\ fs[source_image] \in Sources

\* ------------------------------------------------------------------- claims

\* C1: when NEW-updated.png is missing at the existence check, the run makes no
\* library call at all (no load attempt), leaves app_icon.ico and icon_256.png
\* exactly as they were, prints nothing but the one line "Error:
\* NEW-updated.png not found." and returns normally.
C1_MissingSource ==
    (run >= 1 /\ fs0[source_image] = Absent) =>
        /\ log = <<>>
        /\ img = NoImage
        /\ \A p \in Outputs : Untouched(p)
        /\ out \in {<<>>, <<NotFoundLine>>}
        /\ pc \in {"l6", "l7", "ret", "done", "idle"}
        /\ Finished => (out = <<NotFoundLine>> /\ status = "success")

C1_Witness ==
    /\ Finished
    /\ fs0[source_image] = Absent
    /\ fs0[ico_path] = Old
    /\ fs[ico_path] = Old
    /\ out = <<NotFoundLine>>

\* C2: when the source exists and none of the four library calls raises, the
\* finished run has made all four calls, written app_icon.ico and icon_256.png
\* (replacing what was there) and no other file, and printed "Generated
\* app_icon.ico" then "Generated icon_256.png" and nothing else.
C2_SuccessfulRun ==
    (Finished /\ fs0[source_image] # Absent /\ faults = {}) =>
        /\ log = <<<<"open", "ok">>, <<"save_ico", "ok">>, <<"resize", "ok">>, <<"save_png", "ok">>>>
        /\ fs[ico_path] = IcoFile(fs0[source_image])
        /\ fs[png_path] = PngFile(Resized(fs0[source_image]))
        /\ {p \in Paths : ~Untouched(p)} \subseteq Outputs
        /\ out = <<GeneratedIco, GeneratedPng>>

C2_Witness ==
    /\ Finished
    /\ faults = {}
    /\ fs0[source_image] \in Images
    /\ fs0[ico_path] = Old
    /\ fs0[png_path] = Absent
    /\ fs[ico_path] = IcoFile(fs0[source_image])
    /\ fs[png_path].fmt = "PNG"
    /\ fs[png_path].w = resize_side

\* C3: in every state, an output file has been saved to (successfully or not),
\* or differs from what the run found, only if Image.open returned earlier in
\* the same run; a run whose Image.open raised touches neither output.
C3_WritesOnlyAfterLoad ==
    /\ (Made("save_ico") \/ Made("save_png") \/ (\E p \in Outputs : ~Untouched(p))) =>
           (Ok("open") /\ log[1] = <<"open", "ok">> /\ img = fs0[source_image] /\ img \in Images)
    /\ Failed("open") =>
           (~Made("save_ico") /\ ~Made("save_png") /\ \A p \in Outputs : Untouched(p))

C3_Witness ==
    /\ Ok("open")
    /\ Ok("save_png")
    /\ ~Untouched(ico_path)
    /\ ~Untouched(png_path)

\* C4: every started run returns normally, whatever fails: no exception leaves
\* process_icons() (control never reaches an uncaught-exception exit), and
\* each run that starts eventually finishes with exit status success.
C4_AlwaysReturnsNormally ==
    /\ [](pc # "crash")
    /\ [](Finished => status = "success")
    /\ (pc = "l6") ~> (Finished /\ status = "success")

C4_Witness ==
    /\ Finished
    /\ status = "success"
    /\ Failed("save_png")
    /\ Len(out) = 2
    /\ IsErrorLine(out[2])

\* C5: once the save of app_icon.ico has raised, the run makes neither the
\* resize nor the PNG save, leaves icon_256.png as it found it, never prints
\* "Generated icon_256.png", and finishes having printed only the
\* "Error processing image: ..." line for that failure.
C5_IcoFailureSkipsPng ==
    Failed("save_ico") =>
        /\ ~Made("resize")
        /\ ~Made("save_png")
        /\ Untouched(png_path)
        /\ ~Has(GeneratedPng)
        /\ pc \in {"l28", "ret", "done", "idle"}
        /\ Finished => out = <<ErrorLine("save_ico")>>

C5_Witness ==
    /\ Finished
    /\ Failed("save_ico")
    /\ fs[ico_path] = Partial
    /\ out = <<ErrorLine("save_ico")>>

\* C6 as stated: a run whose ICO save raised has still attempted the PNG
\* resize-and-save step by the time it finishes.
C6_PngAttemptedAfterIcoFailure ==
    (Finished /\ Failed("save_ico")) => (Made("resize") \/ Made("save_png"))

\* C6 amended: the PNG step (resize, then save) is reached and attempted in a
\* run only after that run's ICO save returned and "Generated app_icon.ico" was
\* printed; a failed ICO save prevents the attempt.
C6_PngOnlyAfterIco ==
    (pc \in {"l23", "l24", "l25"} \/ Made("resize") \/ Made("save_png")) =>
        /\ Ok("save_ico")
        /\ ~Failed("save_ico")
        /\ Has(GeneratedIco)

C6_Witness ==
    /\ Finished
    /\ Failed("save_ico")
    /\ Raises("save_png", faults)
    /\ ~Made("resize")
    /\ ~Made("save_png")

\* C7: when the ICO save returned and then the resize or the PNG save raised,
\* the finished run has left app_icon.ico as it wrote it (no rollback), has not
\* produced icon_256.png, has printed "Generated app_icon.ico" followed by
\* exactly one "Error processing image: ..." line; and no call is ever made
\* twice in a run (no retry).
C7_PartialOutput ==
    /\ \A c \in Calls : Count(c) <= 1
    /\ (Finished /\ Ok("save_ico") /\ (Failed("resize") \/ Failed("save_png"))) =>
           /\ fs[ico_path] = IcoFile(fs0[source_image])
           /\ ~Ok("save_png")
           /\ fs[png_path] \in {fs0[png_path], Partial}
           /\ out = <<GeneratedIco, ErrorLine(IF Failed("resize") THEN "resize" ELSE "save_png")>>

C7_Witness ==
    /\ Finished
    /\ Ok("save_ico")
    /\ Failed("save_png")
    /\ fs[ico_path] = IcoFile(fs0[source_image])
    /\ fs0[png_path] = Absent
    /\ fs[png_path] = Absent
    /\ out = <<GeneratedIco, ErrorLine("save_png")>>

\* C8: a second run in succession on the same source, with no library call
\* raising in either run, leaves app_icon.ico and icon_256.png with the same
\* contents as the first run left, and prints the same two "Generated ..."
\* lines and no error line.
C8_Idempotent ==
    (Finished /\ run >= 2 /\ prev.clean /\ faults = {}
        /\ fs0[source_image] \in Images /\ prev.src = fs0[source_image]) =>
        /\ fs[ico_path] = prev.ico
        /\ fs[png_path] = prev.png
        /\ out = prev.out
        /\ out = <<GeneratedIco, GeneratedPng>>
        /\ \A i \in DOMAIN out : ~IsError(out[i])

C8_Witness ==
    /\ Finished
    /\ run >= 2
    /\ prev.clean
    /\ faults = {}
    /\ fs0[source_image] \in Images
    /\ prev.src = fs0[source_image]
    /\ fs0[ico_path] = prev.ico
    /\ fs[ico_path] = prev.ico
    /\ fs[ico_path].fmt = "ICO"

\* C10: in every state the console agrees with the files: "Generated
\* app_icon.ico" is printed only after the ICO save returned, "Generated
\* icon_256.png" only after the PNG save returned and after "Generated
\* app_icon.ico"; at most one error line is printed in a run and it is the
\* last line; no run prints both an error line and "Generated icon_256.png".
C10_ConsoleConsistent ==
    /\ Has(GeneratedIco) =>
           (Ok("save_ico") /\ out[1] = GeneratedIco /\ fs[ico_path] = IcoFile(img))
    /\ Has(GeneratedPng) =>
           /\ Ok("save_png")
           /\ fs[png_path] = PngFile(img_resized)
           /\ out = <<GeneratedIco, GeneratedPng>>
    /\ \A i \in DOMAIN out : IsError(out[i]) => i = Len(out)
    /\ Cardinality({i \in DOMAIN out : IsError(out[i])}) <= 1
    /\ ~(Has(GeneratedPng) /\ \E i \in DOMAIN out : IsError(out[i]))
    /\ \A i \in DOMAIN out :
           out[i] \in {GeneratedIco, GeneratedPng, NotFoundLine} \cup {ErrorLine(c) : c \in Calls}

C10_Witness ==
    /\ Finished
    /\ out = <<GeneratedIco, ErrorLine("resize")>>
    /\ fs[ico_path] = IcoFile(img)
    /\ Untouched(png_path)

====
